---- MODULE Spec2Model ----
(***************************************************************************)
(* The e-library inventory and loan ledger: the books, users and loans     *)
(* tables and the request handlers that write them, from                   *)
(* src/e_library_in_one.py (the one-file application) and                  *)
(* src/app/api/routes.py (the packaged application, the one the test suite *)
(* drives).  Both applications open the same database (the same default    *)
(* ELIB_DB url), so their handlers are actions over one store.             *)
(*                                                                         *)
(* Store semantics.  The engine is created with                            *)
(* connect_args={"check_same_thread": False}, an argument only the sqlite3 *)
(* driver accepts, so the store is SQLite driven through the SQLAlchemy    *)
(* ORM: a SELECT reads the latest committed rows; db.commit() flushes the  *)
(* session's pending INSERT/UPDATE/DELETE statements and commits them as   *)
(* one atomic write; an UPDATE carries the values the handler computed     *)
(* from the rows it read, and only the columns whose value changed; an     *)
(* exception before or during the commit rolls everything back; an integer *)
(* primary key is max(id) + 1; foreign keys are not enforced; deleting a   *)
(* Book sets book_id of the loans of its relationship to NULL.             *)
(* SQLite has no SELECT ... FOR UPDATE: with_for_update() compiles to an   *)
(* ordinary SELECT there.                                                  *)
(*                                                                         *)
(* Columns no handler reads back (published_date, created_at, borrowed_at, *)
(* joined_at, name) are left out of the rows.                              *)
(***************************************************************************)
EXTENDS Integers, Sequences, FiniteSets, TLC

\* ---------------------------------------------------------------- bounds
MaxBooks == 2
MaxLoans == 2
MaxCopies == 1
MaxClock == 1
MaxDay == 1
MaxRows == 1

\* ------------------------------------------------------ program constants
\* days: int = 14
DefaultDays == 14
\* int(row.get('copies_total') or 1)
DefaultCopies == 1

\* ------------------------------------------------------------- the values
\* SQL NULL / Python None in a string column, an integer foreign key, a timestamp
NoneStr == "None"
NoBook == 0
NoTime == -1
\* What .first() returns when no row matches
NoRow == [none |-> TRUE]
IsNone(row) == "none" \in DOMAIN row

VARIABLES books, users, loans, req

vars == <<books, users, loans, req>>

\* class Book: the columns of a row of the books table
BookRow(title, author, isbn, total, available) ==
    [title |-> title, author |-> author, isbn |-> isbn,
     copies_total |-> total, copies_available |-> available]

\* class Loan: the columns of a row of the loans table
LoanRow(user_id, book_id, due, returned_at, active) ==
    [user_id |-> user_id, book_id |-> book_id, due_date |-> due,
     returned_at |-> returned_at, active |-> active]

Max(a, b) == IF a >= b THEN a ELSE b
Min(a, b) == IF a <= b THEN a ELSE b

SetMax(S) == CHOOSE x \in S : \A y \in S : y <= x

\* id = Column(Integer, primary_key=True): SQLite's rowid, max(id) + 1
NextId(ids) == IF ids = {} THEN 1 ELSE SetMax(ids) + 1

\* unique=True on isbn, nullable=False on title and author: what a commit rejects
IntegrityError(bks) ==
    \/ \E i \in DOMAIN bks : bks[i].title = NoneStr \/ bks[i].author = NoneStr
    \/ \E i, j \in DOMAIN bks :
          i # j /\ bks[i].isbn # NoneStr /\ bks[i].isbn = bks[j].isbn

\* db.query(Book).filter(Book.isbn == isbn).first()
BookByIsbn(bks, isbn) ==
    IF \E i \in DOMAIN bks : bks[i].isbn = isbn
    THEN CHOOSE i \in DOMAIN bks : bks[i].isbn = isbn
    ELSE NoBook

\* Python truthiness of an Optional[str]
Truthy(s) == s # NoneStr /\ s # ""

\* str.strip() on the titles and authors of the model (none has outer blanks)
Strip(s) == s

\* What a handler does on a store: the tables it leaves, and its answer: the
\* failure kind ("ok" for 200) and the id of the row it returns
Result(bks, usrs, lns, status, id) ==
    [books |-> bks, users |-> usrs, loans |-> lns, status |-> status, id |-> id]

\* ------------------------------------------------------------ the inputs
Titles == {"T1"}
Authors == {"A1"}
Isbns == {NoneStr, "i1"}
Emails == {"alice@example.com"}
\* copies_total: int = Field(default=1, ge=0)
CreateCopies == 0 .. MaxCopies
\* BookUpdate.copies_total: Optional[int], no lower limit
UpdateCopies == -1 .. MaxCopies
\* days: int = 14; 0 stands for a request without the days parameter
DaysGiven == {0, 7}
BookIds == 1 .. MaxBooks
UserIds == 1 .. 2
LoanIds == 1 .. MaxLoans
\* The instants datetime.utcnow() may return and the days of date.today()
Times == 0 .. MaxClock
Dates == 1 .. MaxDay

\* BookCreate, after validation
BookCreates ==
    [title : Titles, author : Authors, isbn : Isbns, copies_total : CreateCopies]

\* BookUpdate.dict(exclude_unset=True): the fields the request sets
BookUpdates ==
    [copies_total : UpdateCopies] \cup [isbn : Isbns \ {NoneStr}]

\* ------------------------------------------------------------ create_book
\* if book_in.isbn: existing = db.query(Book).filter(Book.isbn == ...).first()
create_book_duplicate(bks, book_in) ==
    Truthy(book_in.isbn) /\ BookByIsbn(bks, book_in.isbn) # NoBook

\* db.add(book); db.commit(): the INSERT, refused by a violated constraint
create_book_commit(bks, book_in) ==
    LET id == NextId(DOMAIN bks)
        row == BookRow(Strip(book_in.title), Strip(book_in.author), book_in.isbn,
                       book_in.copies_total, book_in.copies_total)
        new == bks @@ (id :> row)
    IN  IF IntegrityError(new)
        THEN [books |-> bks, status |-> "ServerError", id |-> NoBook]
        ELSE [books |-> new, status |-> "ok", id |-> id]

create_book_handler(bks, usrs, lns, book_in) ==
    LET r == IF create_book_duplicate(bks, book_in)
             THEN [books |-> bks, status |-> "DuplicateIdentifier", id |-> NoBook]
             ELSE create_book_commit(bks, book_in)
    IN  Result(r.books, usrs, lns, r.status, r.id)

\* A handler as an action: the store becomes what the handler leaves
Serve(r) ==
    /\ books' = r.books
    /\ users' = r.users
    /\ loans' = r.loans
    /\ UNCHANGED req

create_book(book_in) ==
    /\ NextId(DOMAIN books) <= MaxBooks
    /\ Serve(create_book_handler(books, users, loans, book_in))

\* ------------------------------------------------------------ create_user
create_user_handler(bks, usrs, lns, email) ==
    IF \E u \in DOMAIN usrs : usrs[u] = email
    THEN Result(bks, usrs, lns, "DuplicateIdentifier", 0)
    ELSE Result(bks, usrs @@ (NextId(DOMAIN usrs) :> Strip(email)), lns,
                "ok", NextId(DOMAIN usrs))

create_user(email) ==
    /\ NextId(DOMAIN users) \in UserIds
    /\ Serve(create_user_handler(books, users, loans, email))

\* ------------------------------------------------------------ update_book
\* lines 192-200: the Book object after the handler's assignments
update_book_assign(book, data) ==
    LET resized ==
            IF "copies_total" \in DOMAIN data
            THEN [book EXCEPT
                    !.copies_available =
                        Max(0, book.copies_available
                                 + (data.copies_total - book.copies_total)),
                    !.copies_total = data.copies_total]
            ELSE book
    IN  [k \in DOMAIN book |->
            IF k \in DOMAIN data /\ k # "copies_total" THEN data[k] ELSE resized[k]]

\* The UPDATE a flush emits for a loaded row: the columns the handler changed
UpdateRow(current, loaded, assigned) ==
    [k \in DOMAIN current |->
        IF assigned[k] # loaded[k] THEN assigned[k] ELSE current[k]]

\* db.add(book); db.commit() of a Book loaded as `loaded` and now `assigned`
update_book_commit(bks, book_id, loaded, assigned) ==
    IF assigned = loaded THEN [books |-> bks, status |-> "ok"]
    ELSE IF book_id \notin DOMAIN bks THEN [books |-> bks, status |-> "ServerError"]
    ELSE LET new == [bks EXCEPT ![book_id] = UpdateRow(bks[book_id], loaded, assigned)]
         IN  IF IntegrityError(new)
             THEN [books |-> bks, status |-> "ServerError"]
             ELSE [books |-> new, status |-> "ok"]

update_book_handler(bks, usrs, lns, book_id, data) ==
    IF book_id \notin DOMAIN bks
    THEN Result(bks, usrs, lns, "NotFound", NoBook)
    ELSE LET r == update_book_commit(bks, book_id, bks[book_id],
                                     update_book_assign(bks[book_id], data))
         IN  Result(r.books, usrs, lns, r.status, book_id)

update_book(book_id, data) ==
    /\ book_id \in BookIds
    /\ Serve(update_book_handler(books, users, loans, book_id, data))

\* ------------------------------------------------------------ delete_book
\* active_loans without the filter on Loan.active
active_loans_any(lns, book_id) ==
    Cardinality({l \in DOMAIN lns : lns[l].book_id = book_id})

\* db.query(Loan).filter(Loan.book_id == book.id, Loan.active == True).count()
active_loans(lns, book_id) ==
    Cardinality({l \in DOMAIN lns : lns[l].book_id = book_id /\ lns[l].active})

\* db.delete(book); db.commit(): the flush sets book_id of the Book's loans to
\* NULL (relationship "loans" without a delete cascade), then deletes the row
delete_book_commit(bks, lns, book_id) ==
    [books |-> [i \in DOMAIN bks \ {book_id} |-> bks[i]],
     loans |-> [l \in DOMAIN lns |->
                  IF lns[l].book_id = book_id
                  THEN [lns[l] EXCEPT !.book_id = NoBook] ELSE lns[l]]]

delete_book_handler(bks, usrs, lns, book_id) ==
    IF book_id \notin DOMAIN bks
    THEN Result(bks, usrs, lns, "NotFound", NoBook)
    ELSE IF active_loans(lns, book_id) > 0
    THEN Result(bks, usrs, lns, "Conflict", book_id)
    ELSE LET r == delete_book_commit(bks, lns, book_id)
         IN  Result(r.books, usrs, r.loans, "ok", book_id)

delete_book(book_id) ==
    /\ book_id \in BookIds
    /\ Serve(delete_book_handler(books, users, loans, book_id))

\* ------------------------------------------------------------ borrow_book
\* The handler of both applications: routes.py's reads the Book with a plain
\* SELECT, the one-file application's with with_for_update(), which SQLite
\* compiles to the same SELECT.
\* lines 271-272: what the two queries return (NoBook: no such row)
borrow_book_query(bks, usrs, user_id, book_id) ==
    [user |-> user_id \in DOMAIN usrs,
     book |-> IF book_id \in DOMAIN bks THEN bks[book_id] ELSE NoRow]

\* borrow_book_check with the stock test off by one
borrow_book_check_below_zero(q) ==
    IF ~q.user \/ IsNone(q.book) THEN "NotFound"
    ELSE IF q.book.copies_available < 0 THEN "OutOfStock"
    ELSE "ok"

\* lines 273-276: the HTTPException the handler raises on what it read
borrow_book_check(q) ==
    IF ~q.user \/ IsNone(q.book) THEN "NotFound"
    ELSE IF q.book.copies_available < 1 THEN "OutOfStock"
    ELSE "ok"

\* due_date with the days of the request ignored
due_date_default_only(today, days) == today + DefaultDays

\* due = date.today() + timedelta(days=days)
due_date(today, days) == today + (IF days = 0 THEN DefaultDays ELSE days)

\* lines 279-283: INSERT the Loan and UPDATE the Book's copies_available to the
\* value read minus one, in one commit; the UPDATE of a row that is gone is a
\* StaleDataError and rolls the INSERT back
borrow_book_commit(bks, lns, q, user_id, book_id, days, today) ==
    LET id == NextId(DOMAIN lns)
        assigned == [q.book EXCEPT !.copies_available = q.book.copies_available - 1]
    IN  IF book_id \notin DOMAIN bks
        THEN [books |-> bks, loans |-> lns, status |-> "ServerError", id |-> 0]
        ELSE [books |-> [bks EXCEPT ![book_id] = UpdateRow(bks[book_id], q.book, assigned)],
              loans |-> lns @@ (id :> LoanRow(user_id, book_id, due_date(today, days),
                                              NoTime, TRUE)),
              status |-> "ok", id |-> id]

borrow_book_handler(bks, usrs, lns, user_id, book_id, days, today) ==
    LET q == borrow_book_query(bks, usrs, user_id, book_id)
        r == IF borrow_book_check(q) # "ok"
             THEN [books |-> bks, loans |-> lns,
                   status |-> borrow_book_check(q), id |-> 0]
             ELSE borrow_book_commit(bks, lns, q, user_id, book_id, days, today)
    IN  Result(r.books, usrs, r.loans, r.status, r.id)

borrow_book(user_id, book_id, days, today) ==
    /\ NextId(DOMAIN loans) <= MaxLoans
    /\ Serve(borrow_book_handler(books, users, loans, user_id, book_id, days, today))

\* ------------------------------------------------------------ return_book
\* e_library_in_one.py lines 290-294 (check_active) and routes.py lines 68-69
\* (no check of loan.active)
return_book_check(lns, loan_id, check_active) ==
    IF loan_id \notin DOMAIN lns THEN "NotFound"
    ELSE IF check_active /\ ~lns[loan_id].active THEN "Conflict"
    ELSE "ok"

\* release_copy that makes room for the copy instead of clamping to the total
release_copy_grows_total(book) ==
    [book EXCEPT !.copies_available = book.copies_available + 1,
                 !.copies_total = Max(book.copies_total, book.copies_available + 1)]

\* book.copies_available = min(book.copies_total, book.copies_available + 1)
release_copy(book) ==
    [book EXCEPT !.copies_available = Min(book.copies_total, book.copies_available + 1)]

\* lines 295-303: close the loan read as `loan` and release a copy of the Book
\* read as `book` (NoRow: the query found none), in one commit
return_book_commit(bks, lns, loan_id, loan, book, now) ==
    LET closed == [loan EXCEPT !.returned_at = now, !.active = FALSE]
        stale == /\ ~IsNone(book)
                 /\ release_copy(book) # book
                 /\ loan.book_id \notin DOMAIN bks
    IN  IF stale THEN [books |-> bks, loans |-> lns, status |-> "ServerError"]
        ELSE [books |-> IF IsNone(book) \/ release_copy(book) = book THEN bks
                        ELSE [bks EXCEPT ![loan.book_id] =
                                 UpdateRow(bks[loan.book_id], book, release_copy(book))],
              loans |-> [lns EXCEPT ![loan_id] = UpdateRow(lns[loan_id], loan, closed)],
              status |-> "ok"]

\* db.query(Book).filter(Book.id == loan.book_id).first()
loan_book(bks, loan) ==
    IF loan.book_id \in DOMAIN bks THEN bks[loan.book_id] ELSE NoRow

return_handler(bks, usrs, lns, loan_id, check_active, now) ==
    LET c == return_book_check(lns, loan_id, check_active)
        r == IF c # "ok"
             THEN [books |-> bks, loans |-> lns, status |-> c]
             ELSE return_book_commit(bks, lns, loan_id, lns[loan_id],
                                     loan_book(bks, lns[loan_id]), now)
    IN  Result(r.books, usrs, r.loans, r.status, loan_id)

\* datetime.utcnow(): what a handler may read from the system clock, which
\* does not run backwards past a time already stored
Clock(lns) == {t \in Times : \A l \in DOMAIN lns : lns[l].returned_at <= t}

\* src/e_library_in_one.py
return_book_handler(bks, usrs, lns, loan_id, now) ==
    return_handler(bks, usrs, lns, loan_id, TRUE, now)

\* src/app/api/routes.py
routes_return_book_handler(bks, usrs, lns, loan_id, now) ==
    return_handler(bks, usrs, lns, loan_id, FALSE, now)

return_book(loan_id, now) ==
    /\ now \in Clock(loans)
    /\ Serve(return_book_handler(books, users, loans, loan_id, now))

routes_return_book(loan_id, now) ==
    /\ now \in Clock(loans)
    /\ Serve(routes_return_book_handler(books, users, loans, loan_id, now))

\* ------------------------------------------------------- import_books_csv
\* The decimal strings of the model and the integers int() makes of them
IntOf ==
    ("-1" :> -1) @@ ("0" :> 0) @@ ("1" :> 1) @@ ("2" :> 2) @@ ("3" :> 3) @@ ("4" :> 4)

\* parse_copies that reads an empty cell as 0 copies
parse_copies_empty_is_zero(field) ==
    IF ~Truthy(field) THEN [ok |-> TRUE, value |-> 0]
    ELSE IF field \in DOMAIN IntOf THEN [ok |-> TRUE, value |-> IntOf[field]]
    ELSE [ok |-> FALSE, value |-> 0]

\* copies = int(row.get('copies_total') or 1): [ok |-> FALSE] is the ValueError
parse_copies(field) ==
    IF ~Truthy(field) THEN [ok |-> TRUE, value |-> DefaultCopies]
    ELSE IF field \in DOMAIN IntOf THEN [ok |-> TRUE, value |-> IntOf[field]]
    ELSE [ok |-> FALSE, value |-> 0]

\* lines 336-342: date.fromisoformat, then strptime "%Y-%m-%d"; FALSE is the
\* exception of the second
parse_date_ok(field) == ~Truthy(field) \/ field = "2024-05-01"

\* row.get('title') or row.get('Title'): None for an empty or missing cell
cell(field) == IF Truthy(field) THEN field ELSE NoneStr

\* A CSV data row: the cells of title, author, isbn, published_date, copies_total
CsvRow(title, author, isbn, published_date, copies_total) ==
    [title |-> title, author |-> author, isbn |-> isbn,
     published_date |-> published_date, copies_total |-> copies_total]

CopiesCells == {"", "x"} \cup {c \in DOMAIN IntOf : IntOf[c] <= MaxCopies}

CsvRows ==
    {CsvRow(t, a, i, "", c) : t \in Titles, a \in Authors, i \in {"", "i1"},
                              c \in CopiesCells}
    \cup {CsvRow("", "A1", "i1", "", "1"), CsvRow("T1", "", "", "", "1"),
          CsvRow("T1", "A1", "i1", "2024-05-01", "1"),
          CsvRow("T1", "A1", "i1", "01/05/2024", "1")}

CsvFiles == UNION {[1 .. n -> CsvRows] : n \in 1 .. MaxRows}

\* merge_text that adopts the incoming cell even when it is empty
merge_text_always(existing, incoming) == incoming

\* book.title = title or book.title (lines 348-349)
merge_text(existing, incoming) == IF Truthy(incoming) THEN incoming ELSE existing

\* merge_copies that adds the incoming copies to the count
merge_copies_sum(existing, incoming) == existing + incoming

\* max(book.copies_total, copies), max(book.copies_available, copies)
merge_copies(existing, incoming) == Max(existing, incoming)

\* The session at the start of the loop: the committed books, the loaded Book
\* objects by id (mem), the Books added and not yet inserted (pending)
import_session(bks) ==
    [db |-> bks, mem |-> bks, pending |-> <<>>, created |-> 0, errors |-> {}]

\* lines 330-363: one pass of the loop, on row i.  The session does not
\* autoflush: the query by ISBN sees the committed rows, not the pending Books
import_row(s, row, i) ==
    LET title == cell(row.title)
        author == cell(row.author)
        isbn == cell(row.isbn)
        copies == parse_copies(row.copies_total)
        found == IF Truthy(isbn) THEN BookByIsbn(s.db, isbn) ELSE NoBook
        inserted == BookRow(title, author, isbn, copies.value, copies.value)
    IN  IF ~copies.ok \/ ~parse_date_ok(row.published_date)
        THEN [s EXCEPT !.errors = @ \cup {i}]
        ELSE IF found # NoBook
        THEN [s EXCEPT
                !.mem[found] =
                    [@ EXCEPT
                       !.title = merge_text(@, title),
                       !.author = merge_text(@, author),
                       !.copies_total = merge_copies(@, copies.value),
                       !.copies_available = merge_copies(@, copies.value)],
                !.created = @ + 1]
        ELSE [s EXCEPT !.pending = Append(@, inserted), !.created = @ + 1]

RECURSIVE import_loop(_, _, _)
import_loop(s, rows, i) ==
    IF i > Len(rows) THEN s
    ELSE import_loop(import_row(s, rows[i], i), rows, i + 1)

\* db.commit(): the UPDATEs of the merged Books and the INSERTs of the pending
\* ones, with ids in the order they were added
import_flush(s) ==
    LET first == NextId(DOMAIN s.db)
        ids == DOMAIN s.db \cup {first + k - 1 : k \in 1 .. Len(s.pending)}
    IN  [i \in ids |->
            IF i \in DOMAIN s.db THEN UpdateRow(s.db[i], s.db[i], s.mem[i])
            ELSE s.pending[i - first + 1]]

\* The answer also carries {"created": created, "errors": errors} (the rows)
import_books_csv_handler(bks, usrs, lns, rows) ==
    LET s == import_loop(import_session(bks), rows, 1)
        new == import_flush(s)
    IN  IF IntegrityError(new)
        THEN Result(bks, usrs, lns, "ServerError", 0)
             @@ [created |-> 0, errors |-> {}]
        ELSE Result(new, usrs, lns, "ok", 0)
             @@ [created |-> s.created, errors |-> s.errors]

import_books_csv(rows) ==
    LET r == import_books_csv_handler(books, users, loans, rows)
    IN  /\ \A i \in DOMAIN r.books : i <= MaxBooks
        /\ Serve(r)

\* ------------------------------------------------------ the specification
\* Base.metadata.create_all: empty tables
Init ==
    /\ books = <<>>
    /\ users = <<>>
    /\ loans = <<>>
    /\ req = <<>>

\* The requests served one at a time
Next ==
    \/ \E book_in \in BookCreates : create_book(book_in)
    \/ \E email \in Emails : create_user(email)
    \/ \E book_id \in BookIds, data \in BookUpdates : update_book(book_id, data)
    \/ \E book_id \in BookIds : delete_book(book_id)
    \/ \E user_id \in UserIds, book_id \in BookIds, days \in DaysGiven :
          \E today \in Dates : borrow_book(user_id, book_id, days, today)
    \/ \E loan_id \in LoanIds, now \in Times : return_book(loan_id, now)
    \/ \E loan_id \in LoanIds, now \in Times : routes_return_book(loan_id, now)
    \/ \E rows \in CsvFiles : import_books_csv(rows)

Spec == Init /\ [][Next]_vars

\* ------------------------------------------------- the requests in flight
\* FastAPI runs each `def` handler on a worker thread with a Session of its
\* own (get_db), so the handlers of different requests interleave at their
\* database round trips: each query and each commit is one step.  A client
\* sends one request; req[c] is where its handler stands, what it has read,
\* and, once done, what it answered.
NumClients == 2
RaceCopies == 2
Clients == 1 .. NumClients

Idle == [pc |-> "idle"]
Done(op, status, id) == [pc |-> "done", op |-> op, status |-> status, id |-> id]

Finish(c, r, op) ==
    /\ books' = r.books
    /\ loans' = r.loans
    /\ req' = [req EXCEPT ![c] = Done(op, r.status, r.id)]
    /\ UNCHANGED users

\* borrow_book, lines 271-276: the two queries and the checks on their rows
BorrowQuery(c, user_id, book_id, days, today) ==
    /\ req[c].pc = "idle"
    /\ LET q == borrow_book_query(books, users, user_id, book_id)
       IN  req' = [req EXCEPT ![c] =
                     IF borrow_book_check(q) # "ok"
                     THEN Done("borrow_book", borrow_book_check(q), 0)
                     ELSE [pc |-> "borrow_commit", q |-> q, user_id |-> user_id,
                           book_id |-> book_id, days |-> days, today |-> today]]
    /\ UNCHANGED <<books, users, loans>>

\* borrow_book, lines 278-283, on the rows read by BorrowQuery
BorrowCommit(c) ==
    /\ req[c].pc = "borrow_commit"
    /\ Finish(c, borrow_book_commit(books, loans, req[c].q, req[c].user_id,
                                    req[c].book_id, req[c].days, req[c].today),
              "borrow_book")

\* return_book, lines 290-296: the Loan query, the checks, utcnow()
ReturnLoanQuery(c, op, loan_id, check_active, now) ==
    /\ req[c].pc = "idle"
    /\ now \in Clock(loans)
    /\ LET check == return_book_check(loans, loan_id, check_active)
       IN  req' = [req EXCEPT ![c] =
                     IF check # "ok" THEN Done(op, check, loan_id)
                     ELSE [pc |-> "return_book_query", op |-> op, loan_id |-> loan_id,
                           loan |-> loans[loan_id], now |-> now]]
    /\ UNCHANGED <<books, users, loans>>

\* return_book, line 298: the Book query
ReturnBookQuery(c) ==
    /\ req[c].pc = "return_book_query"
    /\ req' = [req EXCEPT ![c] =
                 [pc |-> "return_commit", op |-> req[c].op, loan_id |-> req[c].loan_id,
                  loan |-> req[c].loan, now |-> req[c].now,
                  book |-> loan_book(books, req[c].loan)]]
    /\ UNCHANGED <<books, users, loans>>

\* return_book, lines 299-303, on the rows read before
ReturnCommit(c) ==
    /\ req[c].pc = "return_commit"
    /\ Finish(c, return_book_commit(books, loans, req[c].loan_id, req[c].loan,
                                    req[c].book, req[c].now)
                 @@ [id |-> req[c].loan_id],
              req[c].op)

\* delete_book, lines 209-211: the Book query
DeleteBookQuery(c, book_id) ==
    /\ req[c].pc = "idle"
    /\ req' = [req EXCEPT ![c] =
                 IF book_id \notin DOMAIN books
                 THEN Done("delete_book", "NotFound", NoBook)
                 ELSE [pc |-> "delete_count", book_id |-> book_id]]
    /\ UNCHANGED <<books, users, loans>>

\* delete_book, lines 213-215: the count of the active loans
DeleteCount(c) ==
    /\ req[c].pc = "delete_count"
    /\ req' = [req EXCEPT ![c] =
                 IF active_loans(loans, req[c].book_id) > 0
                 THEN Done("delete_book", "Conflict", req[c].book_id)
                 ELSE [pc |-> "delete_commit", book_id |-> req[c].book_id]]
    /\ UNCHANGED <<books, users, loans>>

\* delete_book, lines 216-217: a DELETE that matches no row is a warning only
DeleteCommit(c) ==
    /\ req[c].pc = "delete_commit"
    /\ Finish(c, delete_book_commit(books, loans, req[c].book_id)
                 @@ [status |-> "ok", id |-> req[c].book_id],
              "delete_book")

\* A catalogue of one Book of K copies, L of them on loan to the first of two
\* members: what create_user, create_book and borrow_book leave when served
\* one after the other
RaceStore(K, L) ==
    /\ users = <<"alice@example.com", "bob@example.com">>
    /\ books = <<BookRow("T1", "A1", "i1", K, K - L)>>
    /\ loans = [l \in 1 .. L |-> LoanRow(1, 1, due_date(1, 0), NoTime, TRUE)]

RaceInit ==
    /\ \E K \in 1 .. RaceCopies, L \in 0 .. RaceCopies : L <= K /\ RaceStore(K, L)
    /\ req = [c \in Clients |-> Idle]

RaceNext ==
    \E c \in Clients :
        \/ \E user_id \in UserIds, days \in DaysGiven, today \in Dates :
              BorrowQuery(c, user_id, 1, days, today)
        \/ BorrowCommit(c)
        \/ \E now \in Times : ReturnLoanQuery(c, "return_book", 1, TRUE, now)
        \/ \E now \in Times : ReturnLoanQuery(c, "routes_return_book", 1, FALSE, now)
        \/ ReturnBookQuery(c)
        \/ ReturnCommit(c)
        \/ DeleteBookQuery(c, 1)
        \/ DeleteCount(c)
        \/ DeleteCommit(c)

SpecRace == RaceInit /\ [][RaceNext]_vars

\* A handler that has started runs to its end: its worker thread is scheduled
\* until the handler returns or raises, and get_db then closes its Session.
\* Nothing makes a client send a request.
RaceFairness ==
    \A c \in Clients :
        /\ WF_vars(BorrowCommit(c))
        /\ WF_vars(ReturnBookQuery(c))
        /\ WF_vars(ReturnCommit(c))
        /\ WF_vars(DeleteCount(c))
        /\ WF_vars(DeleteCommit(c))

SpecRaceFair == SpecRace /\ RaceFairness

\* ------------------------------------------------ the catalogue by batches
\* The catalogue as create_book, update_book and CSV batches of several rows
\* build it, with members borrowing from it.  An ISBN given to create_book or
\* update_book is any str, the empty one included (isbn: Optional[str]).
MaxBatch == 2

CatalogIsbns == {NoneStr, "", "i1"}

CatalogCreates ==
    [title : Titles, author : Authors, isbn : CatalogIsbns, copies_total : {1}]

\* The data rows of the batches: a second title and ISBN, rows without title,
\* author or ISBN, a cell int() rejects, a date neither parser reads
BatchRows ==
    {CsvRow(t, "A1", i, "", c) : t \in {"T2", ""}, i \in {"", "i1", "i2"},
                                 c \in {"", "2"}}
    \cup {CsvRow("T1", "", "i2", "", "1"), CsvRow("T2", "A1", "i1", "", "x"),
          CsvRow("T2", "A1", "i2", "01/05/2024", "1")}

BatchFiles == UNION {[1 .. n -> BatchRows] : n \in 1 .. MaxBatch}

CatalogNext ==
    \/ \E book_in \in CatalogCreates : create_book(book_in)
    \/ \E email \in Emails : create_user(email)
    \/ \E book_id \in BookIds, isbn \in CatalogIsbns \ {NoneStr} :
          update_book(book_id, [isbn |-> isbn])
    \/ \E book_id \in BookIds, today \in Dates : borrow_book(1, book_id, 0, today)
    \/ \E rows \in BatchFiles : import_books_csv(rows)

SpecCatalog == Init /\ [][CatalogNext]_vars

\* ============================================================ the claims
\* The active Loans that reference a book, counted on the loans table
ActiveLoansOf(book_id) ==
    Cardinality({l \in DOMAIN loans : loans[l].active /\ loans[l].book_id = book_id})

\* C1: after any sequence of create_book, update_book, delete_book, borrow,
\* return_loan and import_csv calls, every Book has
\* 0 <= copies_available <= copies_total.
C1_AvailableWithinTotal ==
    \A b \in DOMAIN books :
        /\ 0 <= books[b].copies_available
        /\ books[b].copies_available <= books[b].copies_total

\* C2: after any sequence of create_book, update_book, borrow, return_loan and
\* import_csv calls, every Book has copies_total - copies_available equal to the
\* number of active Loans that reference it.
C2_OnLoanIsActiveLoans ==
    \A b \in DOMAIN books :
        books[b].copies_total - books[b].copies_available = ActiveLoansOf(b)

\* The race of C3: every client sent a borrow and every borrow has answered
AllBorrowed ==
    \A c \in Clients : req[c].pc = "done" /\ req[c].op = "borrow_book"

\* The copies that were available before the clients' borrows: the total less
\* the loans no client created
AvailableBefore ==
    books[1].copies_total
      - Cardinality({l \in DOMAIN loans : \A c \in Clients : req[c].id # l})

\* C3: under N concurrent borrow requests by existing members for one book with
\* K available copies, in every interleaving exactly min(N, K) succeed, the rest
\* fail with OutOfStock, and copies_available ends at K - min(N, K).
C3_ExactlyMinSucceed ==
    AllBorrowed =>
        LET won == {c \in Clients : req[c].status = "ok"}
            n == Min(NumClients, AvailableBefore)
        IN  /\ Cardinality(won) = n
            /\ \A c \in Clients \ won : req[c].status = "OutOfStock"
            /\ books[1].copies_available = AvailableBefore - n

\* C4: in every reachable state, also under concurrent borrow requests and after
\* update_book or import_csv, the active Loans that reference a Book are at most
\* its copies_total.
C4_ActiveLoansWithinTotal ==
    \A b \in DOMAIN books : ActiveLoansOf(b) <= books[b].copies_total

\* The two return handlers, by the application that serves them
ReturnResult(app, loan_id, now) ==
    IF app = "one_file"
    THEN return_book_handler(books, users, loans, loan_id, now)
    ELSE routes_return_book_handler(books, users, loans, loan_id, now)

Apps == {"one_file", "routes"}

\* C5: returning a loan twice: the first return_loan succeeds and sets
\* active = false; a second return_loan on the same loan fails with Conflict and
\* changes nothing (the loan's returned_at, the book's copies_available).
C5_SecondReturnConflicts ==
    \A app \in Apps, l \in DOMAIN loans, now \in Clock(loans) :
        LET r == ReturnResult(app, l, now)
        IN  IF loans[l].active
            THEN r.status = "ok" /\ ~r.loans[l].active
            ELSE r.status = "Conflict" /\ r.loans = loans /\ r.books = books

\* C6: from any reachable state in which a borrow of book B succeeds, that borrow
\* followed by return_loan on the loan it created restores B's copies_available
\* to its value before the borrow.
C6_BorrowReturnRestores ==
    \A u \in UserIds, b \in BookIds, days \in DaysGiven, today \in Dates :
        LET borrowed == borrow_book_handler(books, users, loans, u, b, days, today)
        IN  borrowed.status = "ok" =>
              \A now \in Clock(borrowed.loans) :
                 LET returned == return_book_handler(borrowed.books, borrowed.users,
                                                     borrowed.loans, borrowed.id, now)
                 IN  /\ returned.status = "ok"
                     /\ returned.books[b].copies_available = books[b].copies_available

\* C7: delete_book on an existing book fails with Conflict and leaves the book
\* in place whenever an active Loan references it, and succeeds and removes the
\* book whenever none does.
C7_DeleteGuardedByActiveLoans ==
    \A b \in DOMAIN books :
        LET r == delete_book_handler(books, users, loans, b)
        IN  IF ActiveLoansOf(b) > 0
            THEN r.status = "Conflict" /\ r.books = books /\ r.loans = loans
            ELSE r.status = "ok" /\ b \notin DOMAIN r.books

\* A book was borrowed, the loan returned, and the book then deleted: the closed
\* loan is left with the NULL book_id only delete_book writes
C7_Witness ==
    \E l \in DOMAIN loans : ~loans[l].active /\ loans[l].book_id = NoBook

\* C8: a borrow by an existing member of an existing book with
\* copies_available >= 1 succeeds, adds exactly one Loan, of that member and
\* book, active, not returned, due today + days (14 when days is not given), and
\* takes exactly 1 from that book's copies_available.
C8_BorrowCreatesLoan ==
    \A u \in DOMAIN users, b \in DOMAIN books, days \in DaysGiven, today \in Dates :
        books[b].copies_available >= 1 =>
            LET r == borrow_book_handler(books, users, loans, u, b, days, today)
                due == today + (IF days = 0 THEN 14 ELSE days)
            IN  /\ r.status = "ok"
                /\ r.id \notin DOMAIN loans
                /\ DOMAIN r.loans = DOMAIN loans \cup {r.id}
                /\ \A l \in DOMAIN loans : r.loans[l] = loans[l]
                /\ r.loans[r.id] = LoanRow(u, b, due, NoTime, TRUE)
                /\ r.books[b].copies_available = books[b].copies_available - 1

\* A borrow without days has been served: its loan is active, due in 14 days, and
\* one copy of its book is out
C8_Witness ==
    \E l \in DOMAIN loans :
        /\ loans[l].active /\ loans[l].returned_at = NoTime
        /\ loans[l].due_date \in {today + 14 : today \in Dates}
        /\ loans[l].book_id \in DOMAIN books
        /\ books[loans[l].book_id].copies_available
              = books[loans[l].book_id].copies_total - 1

\* C9: borrow fails with NotFound when the member or the book does not exist,
\* and with OutOfStock if and only if both exist and copies_available < 1; a
\* failed borrow creates no Loan and leaves every Book unchanged.
C9_BorrowFailures ==
    \A u \in UserIds, b \in BookIds, days \in DaysGiven, today \in Dates :
        LET r == borrow_book_handler(books, users, loans, u, b, days, today)
            exist == u \in DOMAIN users /\ b \in DOMAIN books
        IN  /\ ~exist => r.status = "NotFound"
            /\ r.status = "OutOfStock" <=> (exist /\ books[b].copies_available < 1)
            /\ r.status # "ok" => r.loans = loans /\ r.books = books

\* The last copy of a book is on loan to a member: a further borrow is out of stock
C9_Witness ==
    \E u \in DOMAIN users, b \in DOMAIN books :
        /\ books[b].copies_total >= 1 /\ books[b].copies_available = 0
        /\ ActiveLoansOf(b) >= 1
        /\ borrow_book_handler(books, users, loans, u, b, 0, 1).status = "OutOfStock"

\* C10: a Loan goes ACTIVE -> RETURNED only: return_loan on an active loan sets
\* active = false and returned_at, and once a Loan has active = false no later
\* operation sets active back, changes its returned_at, or removes the Loan.
C10_ReturnedIsTerminal ==
    [][\A l \in DOMAIN loans :
          /\ l \in DOMAIN loans'
          /\ ~loans[l].active =>
                /\ ~loans'[l].active
                /\ loans'[l].returned_at = loans[l].returned_at
          /\ (loans[l].active /\ ~loans'[l].active) => loans'[l].returned_at # NoTime
      ]_vars

\* x brought into [lo, hi]; lo where the range is empty
ClampInto(x, lo, hi) == Max(lo, Min(x, hi))

\* C11: for every existing book and every new_total update_book accepts,
\* update_book with copies_total = new_total leaves the book with
\* copies_total = new_total and copies_available = the old copies_available
\* shifted by (new_total - old copies_total), clamped into [0, new_total].
C11_ResizeShiftsAndClamps ==
    \A b \in DOMAIN books, new_total \in UpdateCopies :
        LET r == update_book_handler(books, users, loans, b,
                                     [copies_total |-> new_total])
            shifted == books[b].copies_available
                         + (new_total - books[b].copies_total)
        IN  /\ r.status = "ok"
            /\ r.books[b].copies_total = new_total
            /\ r.books[b].copies_available = ClampInto(shifted, 0, new_total)

\* The integer a copies_total cell holds (1 when the cell is empty)
IncomingCopies(row) ==
    IF row.copies_total = "" THEN 1 ELSE IntOf[row.copies_total]

\* CSV rows that parse, with an ISBN: any title and author cell, empty or not
IdentifiedRows ==
    {CsvRow(t, a, i, d, c) : t \in {"", "T1", "T2"}, a \in {"", "A1", "A2"},
                             i \in {"i1", "i2"}, d \in {""},
                             c \in {"", "-1", "0", "1", "2"}}
    \cup {CsvRow("T2", "A2", "i1", "2024-05-01", "1")}

\* C12: when import_csv processes a row whose non-empty ISBN matches an existing
\* Book, no Book is created and that Book ends with copies_total = max(existing
\* copies_total, incoming), copies_available = max(existing copies_available,
\* incoming), and title and author replaced by the incoming cell only where that
\* cell is not empty.
C12_ImportMergesMatch ==
    \A row \in IdentifiedRows :
        LET found == BookByIsbn(books, row.isbn)
            r == import_books_csv_handler(books, users, loans, <<row>>)
            c == IncomingCopies(row)
        IN  found # NoBook =>
              /\ r.status = "ok"
              /\ DOMAIN r.books = DOMAIN books
              /\ r.books[found].copies_total
                    = (IF books[found].copies_total >= c
                       THEN books[found].copies_total ELSE c)
              /\ r.books[found].copies_available
                    = (IF books[found].copies_available >= c
                       THEN books[found].copies_available ELSE c)
              /\ r.books[found].title
                    = (IF row.title # "" THEN row.title ELSE books[found].title)
              /\ r.books[found].author
                    = (IF row.author # "" THEN row.author ELSE books[found].author)
              /\ r.books[found].isbn = row.isbn

\* A Book with an ISBN has a copy on loan, and a row of that ISBN with an empty
\* title and one copy merges into it: the title stays and the copy on loan
\* becomes available again
C12_Witness ==
    \E b \in DOMAIN books :
        LET r == import_books_csv_handler(books, users, loans,
                                          <<CsvRow("", "A2", "i1", "", "1")>>)
        IN  /\ books[b].isbn = "i1"
            /\ ActiveLoansOf(b) = 1
            /\ books[b].copies_available = 0
            /\ r.status = "ok"
            /\ r.books[b] = BookRow(books[b].title, "A2", "i1", 1, 1)

\* The Book of the catalogue bks a row's ISBN cell names, NoBook when the cell
\* is empty or names none
RowMatch(bks, row) ==
    IF row.isbn = "" THEN NoBook ELSE BookByIsbn(bks, row.isbn)

\* A row that cannot be applied: a copies_total that is no integer, a date that
\* is no date, or no title or author for a Book that has to be inserted
RowFails(bks, row) ==
    \/ row.copies_total \notin DOMAIN IntOf \cup {""}
    \/ row.published_date \notin {"", "2024-05-01"}
    \/ RowMatch(bks, row) = NoBook /\ (row.title = "" \/ row.author = "")

\* The catalogue bks holds the Book of a row: the Book of the row's ISBN, or a
\* Book without ISBN of the row's title and author, with at least the row's
\* copies
RowCommitted(bks, row) ==
    \E b \in DOMAIN bks :
        /\ bks[b].copies_total >= IncomingCopies(row)
        /\ IF row.isbn # "" THEN bks[b].isbn = row.isbn
           ELSE /\ bks[b].isbn = NoneStr
                /\ bks[b].title = row.title
                /\ bks[b].author = row.author

\* C13: in import_csv every per-row failure (bad integer, bad date, missing
\* title or author) is reported in errors with its row index and never aborts
\* the batch: import_csv always completes, and every row of the batch that did
\* not fail is committed.
C13_RowFailuresAreReported ==
    \A rows \in BatchFiles :
        LET r == import_books_csv_handler(books, users, loans, rows)
        IN  /\ r.status = "ok"
            /\ r.errors = {i \in DOMAIN rows : RowFails(books, rows[i])}
            /\ \A i \in DOMAIN rows :
                  ~RowFails(books, rows[i]) => RowCommitted(r.books, rows[i])

\* C14: no two Books ever share an ISBN after any sequence of create_book,
\* update_book and import_csv calls, and create_book with an ISBN an existing
\* Book holds fails with DuplicateIdentifier and adds no Book.
C14_IsbnUnique ==
    /\ \A i, j \in DOMAIN books :
          (i # j /\ books[i].isbn # NoneStr) => books[i].isbn # books[j].isbn
    /\ \A book_in \in CatalogCreates :
          LET r == create_book_handler(books, users, loans, book_in)
          IN  (book_in.isbn # NoneStr
                 /\ \E b \in DOMAIN books : books[b].isbn = book_in.isbn)
                => r.status = "DuplicateIdentifier" /\ r.books = books

\* The client c has been answered 200 by the handler op
Answered(c, op) == req[c].pc = "done" /\ req[c].op = op /\ req[c].status = "ok"

\* The loans the store held before the clients' requests: those no client's
\* borrow created
LoansBefore ==
    {l \in DOMAIN loans : \A c \in Clients : ~(Answered(c, "borrow_book") /\ req[c].id = l)}

\* C15: when a return_loan of an active loan on book B runs concurrently with a
\* borrow of B that succeeds, in every interleaving neither update is lost: the
\* final copies_available of B equals its initial value.
C15_ReleaseAndReserveBothApplied ==
    \A c, d \in Clients :
        (Answered(c, "return_book") /\ Answered(d, "borrow_book")) =>
            books[1].copies_available
               = books[1].copies_total - Cardinality(LoansBefore)

\* C16: when two return_loan requests for the same active loan run
\* concurrently, in every interleaving exactly one closes the loan, the other
\* fails with Conflict, and the book's copies_available increases by exactly 1.
C16_OneReturnCloses ==
    (\A c \in Clients : req[c].pc = "done" /\ req[c].op = "return_book"
                         /\ req[c].status # "NotFound") =>
        /\ Cardinality({c \in Clients : req[c].status = "ok"}) = 1
        /\ \A c \in Clients : req[c].status \in {"ok", "Conflict"}
        /\ books[1].copies_available
              = books[1].copies_total - Cardinality(LoansBefore) + 1

\* C17: in every reachable state, also when delete_book runs concurrently with
\* a borrow of the same book, every Loan, active or closed, references a Book
\* that still exists.
C17_LoansReferenceBooks ==
    \A l \in DOMAIN loans : loans[l].book_id \in DOMAIN books

\* The batches whose rows all carry an ISBN
IdentifiedFiles ==
    {rows \in BatchFiles : \A i \in DOMAIN rows : rows[i].isbn # ""}

\* C18: for any catalogue and any batch whose rows all carry a non-empty ISBN,
\* importing the batch twice in succession leaves the same Books, with the same
\* copies_total, copies_available, title and author, as importing it once.
C18_ImportTwiceIsImportOnce ==
    \A rows \in IdentifiedFiles :
        LET once == import_books_csv_handler(books, users, loans, rows)
            twice == import_books_csv_handler(once.books, once.users, once.loans, rows)
        IN  twice.books = once.books

\* A Book with an ISBN has its copy on loan, and a batch of two rows merges into
\* it and inserts a second Book: the first import changes both, the second
\* neither
C18_Witness ==
    \E b \in DOMAIN books :
        LET rows == <<CsvRow("T2", "A1", "i1", "", "2"), CsvRow("T2", "A1", "i2", "", "")>>
            once == import_books_csv_handler(books, users, loans, rows)
        IN  /\ books[b].isbn = "i1"
            /\ books[b].copies_available < books[b].copies_total
            /\ BookByIsbn(books, "i2") = NoBook
            /\ once.status = "ok"
            /\ once.books[b].copies_available = 2
            /\ BookByIsbn(once.books, "i2") # NoBook
            /\ import_books_csv_handler(once.books, users, loans, rows).books
                  = once.books

\* The batches that insert only: every row parses, has title and author, and
\* names no Book of the catalogue bks nor the ISBN of another row
InsertFiles(bks) ==
    {rows \in BatchFiles :
        /\ \A i \in DOMAIN rows :
              ~RowFails(bks, rows[i]) /\ RowMatch(bks, rows[i]) = NoBook
        /\ \A i, j \in DOMAIN rows :
              (i # j /\ rows[i].isbn # "") => rows[i].isbn # rows[j].isbn}

\* C19: when import_csv processes a valid row that has no ISBN, or whose ISBN
\* matches no existing Book, it adds exactly one new Book whose copies_available
\* equals its copies_total equals the incoming copies_total (1 when the column
\* is empty), and changes no existing Book.
C19_ImportInsertsUnmatched ==
    \A rows \in InsertFiles(books) :
        LET r == import_books_csv_handler(books, users, loans, rows)
            added == DOMAIN r.books \ DOMAIN books
        IN  /\ r.status = "ok"
            /\ DOMAIN books \subseteq DOMAIN r.books
            /\ \A b \in DOMAIN books : r.books[b] = books[b]
            /\ Cardinality(added) = Len(rows)
            /\ \A i \in DOMAIN rows :
                  \E b \in added :
                     /\ r.books[b].title = rows[i].title
                     /\ r.books[b].author = rows[i].author
                     /\ r.books[b].isbn
                           = (IF rows[i].isbn = "" THEN NoneStr ELSE rows[i].isbn)
                     /\ r.books[b].copies_total
                           = (IF rows[i].copies_total = "" THEN 1
                              ELSE IntOf[rows[i].copies_total])
                     /\ r.books[b].copies_available = r.books[b].copies_total

\* A row without ISBN and with an empty copies_total column has been imported:
\* its Book has one copy, available
C19_Witness ==
    \E b \in DOMAIN books : books[b] = BookRow("T2", "A1", NoneStr, 1, 1)

\* C20: for every batch, import_csv returns a created count equal to the number
\* of rows applied without error (inserted or merged), and created plus the
\* number of entries in errors equals the number of data rows of the batch.
C20_CreatedCountsAppliedRows ==
    \A rows \in BatchFiles :
        LET r == import_books_csv_handler(books, users, loans, rows)
        IN  /\ r.status = "ok"
            /\ r.created
                  = Cardinality({i \in DOMAIN rows : ~RowFails(books, rows[i])})
            /\ r.created + Cardinality(r.errors) = Len(rows)

\* Every Book of the catalogue is left in place by the result r, with its
\* copies_total, and, unless it is `touched`, with every other column too
BooksFramed(r, touched) ==
    /\ DOMAIN r.books = DOMAIN books
    /\ \A b \in DOMAIN books :
          /\ r.books[b].copies_total = books[b].copies_total
          /\ b # touched => r.books[b] = books[b]

\* C21: a borrow of book B and a return_loan of loan L change only B's (L's
\* book's) copies_available and the one Loan created (L): the copies_total of
\* every book, the copies_available of every other book, every other Loan and
\* every Member are left unchanged.
C21_BorrowReturnFrame ==
    /\ \A u \in UserIds, b \in BookIds, days \in DaysGiven, today \in Dates :
          LET r == borrow_book_handler(books, users, loans, u, b, days, today)
          IN  /\ r.users = users
              /\ BooksFramed(r, b)
              /\ DOMAIN r.loans \subseteq DOMAIN loans \cup {r.id}
              /\ \A l \in DOMAIN loans : r.loans[l] = loans[l]
    /\ \A app \in Apps, l \in LoanIds, now \in Clock(loans) :
          LET r == ReturnResult(app, l, now)
          IN  /\ r.users = users
              /\ BooksFramed(r, IF l \in DOMAIN loans THEN loans[l].book_id ELSE NoBook)
              /\ DOMAIN r.loans = DOMAIN loans
              /\ \A k \in DOMAIN loans : k # l => r.loans[k] = loans[k]

\* Two Books, one with a returned loan and one with a copy on loan: a borrow and
\* a return have been served beside another Book and another Loan
C21_Witness ==
    \E l, k \in DOMAIN loans :
        /\ ~loans[l].active /\ loans[k].active
        /\ loans[l].book_id \in DOMAIN books /\ loans[k].book_id \in DOMAIN books
        /\ loans[l].book_id # loans[k].book_id

\* The answers the claim allows a borrow: 200 and the two failure kinds
BorrowOutcomes == {"ok", "NotFound", "OutOfStock"}

\* C22: every borrow request that starts eventually finishes, with success,
\* NotFound or OutOfStock, whatever concurrent borrow, return_loan and
\* delete_book requests do: under fair scheduling none blocks it forever, and
\* it holds nothing a later borrow waits for.  A started borrow always has its
\* next step enabled, which the fairness of SpecRaceFair then takes, and a
\* finished one has answered with one of the three outcomes.
C22_BorrowFinishes ==
    \A c \in Clients :
        /\ req[c].pc = "borrow_commit" => ENABLED BorrowCommit(c)
        /\ (req[c].pc = "done" /\ req[c].op = "borrow_book")
              => req[c].status \in BorrowOutcomes

====
